---- MODULE Spec2Model ----
(***************************************************************************)
(* Grading-and-ledger subsystem of trading-manager-pro.                    *)
(*                                                                         *)
(* State: the JSON collections of DataStorage (accounts, trades,           *)
(* withdrawals, settings) and the Streamlit session state of the live      *)
(* trade grader.  One action per button handler.  Money is counted in      *)
(* whole units (the code uses floats; rounding is outside this model).     *)
(***************************************************************************)
EXTENDS Integers, Sequences, FiniteSets, TLC

VARIABLES
    accounts,               \* accounts.json: list of account records
    trades,                 \* trades.json: list of trade records
    withdrawals,            \* withdrawals.json: list of withdrawal records
    playbooks,              \* playbooks.json: list of playbook records
    prop_firms,             \* prop_firms.json: list of prop firm records
    checkins,               \* psychological_checkins.json: list of check-ins
    settings,               \* config.json[0]: rule lists and position sizing
    live_trade_active,      \* st.session_state.live_trade_active
    must_have_checked,      \* st.session_state.must_have_checked
    a_checked,              \* st.session_state.a_checked
    b_checked,              \* st.session_state.b_checked
    c_checked,              \* st.session_state.c_checked
    show_trade_entry_form,  \* st.session_state.show_trade_entry_form
    trade_entry,            \* st.session_state.trade_entry_{grade,must_have,a,b,c}
    now,                    \* datetime.now() truncated to the second
    today,                  \* date.today()
    unwritable,             \* the collections whose file cannot be written
    inflight,               \* script runs of other browser sessions, mid-handler
    nlogged,                \* number of add_trade calls so far (bounds the run)
    nsubmitted,             \* number of save_checkin calls so far (likewise)
    gin,                    \* arguments handed to a grader
    gout                    \* what the grader returned

ledgerVars  == <<accounts, trades, withdrawals>>
sessionVars == <<live_trade_active, must_have_checked, a_checked, b_checked,
                 c_checked, show_trade_entry_form, trade_entry>>
graderVars  == <<gin, gout>>
counters    == <<nlogged, nsubmitted>>
otherFiles  == <<playbooks, prop_firms, checkins>>
envVars     == <<now, today, unwritable, inflight>>
vars == <<accounts, trades, withdrawals, playbooks, prop_firms, checkins,
          settings,
          live_trade_active,
          must_have_checked, a_checked, b_checked, c_checked,
          show_trade_entry_form, trade_entry, now, today, unwritable, inflight,
          nlogged, nsubmitted, gin, gout>>

-----------------------------------------------------------------------------
(* Bounds of the model *)

MaxTrades == 2
MaxWithdrawals == 2
MaxLogged == 2
MaxMust == 2
MaxCond == 1
MaxRulesC == 2
MaxRulesB == 1
MaxRulesA == 1
MaxDays == 2
MaxClock == 2
MaxSubmits == 3

(* Input samples *)

InitialBalance == 10
GrossValues == {0}
CommissionValues == {1}
EditPnlValues == {2}
AmountValues == {1, 2}
StatusInputs == {"paid"}
AllocInputs == {<<1, 0, 0, 0>>, <<1, 0, 0, 1>>}

\* an optional value: <<>> when absent, <<v>> when present
None == <<>>
Some(v) == <<v>>
Grades == {"A", "B", "C", "F"}

-----------------------------------------------------------------------------
(* Python helpers *)

\* dict.get(key, default)
Get(d, k, default) == IF k \in DOMAIN d THEN d[k] ELSE default

\* {f"x_{i}": False for i in range(n)}
AllFalse(n) == [i \in 0 .. n - 1 |-> FALSE]

\* the empty dict {}
EmptyDict == [i \in {} |-> FALSE]

\* d[k] = v on a dict
Put(d, k, v) == [i \in DOMAIN d \cup {k} |-> IF i = k THEN v ELSE d[i]]

\* list.pop(i), i counted from 1
RemoveAt(s, i) == [j \in 1 .. Len(s) - 1 |-> IF j < i THEN s[j] ELSE s[j + 1]]

\* DataStorage.load_data on a file that is missing, empty, text that is not
\* JSON, bytes that are not text in the given encoding, or JSON: open raises
\* FileNotFoundError, json.load raises JSONDecodeError, both caught; f.read()
\* inside json.load raises UnicodeDecodeError, which the except clause does not
\* name; latin-1 decodes any bytes, to text that is not JSON
load_data(file, encoding) ==
    CASE file.kind = "missing" -> [raised |-> FALSE, data |-> <<>>]
      [] file.kind = "empty" -> [raised |-> FALSE, data |-> <<>>]
      [] file.kind = "not_json" -> [raised |-> FALSE, data |-> <<>>]
      [] file.kind = "not_text" ->
            IF encoding = "utf-8"
            THEN [raised |-> TRUE, data |-> <<>>]
            ELSE [raised |-> FALSE, data |-> <<>>]
      [] file.kind = "json" -> [raised |-> FALSE, data |-> file.data]

\* DataStorage.save_data: the file takes the new content; when the write
\* raises, the exception is caught, False is returned (no caller reads it)
\* and the file keeps what it held
save_data(data_type, old, data) ==
    IF data_type \in unwritable THEN old ELSE data

\* DataStorage.save_settings: the given settings over the defaults, of which
\* enforce_clearance is the one read back here, stored as the config file
save_settings(old, st) ==
    save_data("config", old,
        [st EXCEPT !.enforce_clearance =
            IF @ = None THEN Some("Soft (Warning Only)") ELSE @])

-----------------------------------------------------------------------------
(* Accounts *)

\* for i, acc in enumerate(all_accounts):
\*     if acc.get('account_number') == number: <update>; break
RECURSIVE FirstMatch(_, _, _)
FirstMatch(accts, number, i) ==
    IF i > Len(accts) THEN 0
    ELSE IF accts[i].account_number = number THEN i
         ELSE FirstMatch(accts, number, i + 1)

AddToBalance(accts, number, delta) ==
    LET i == FirstMatch(accts, number, 1)
    IN  IF i = 0 THEN accts
        ELSE [accts EXCEPT ![i].current_balance = @ + delta]

\* [a for a in accounts if a.get('status') in statuses], as the increasing
\* list of the indexes kept
RECURSIVE WithStatus(_, _, _)
WithStatus(accts, statuses, i) ==
    IF i > Len(accts) THEN <<>>
    ELSE IF accts[i].status \in statuses
         THEN <<i>> \o WithStatus(accts, statuses, i + 1)
         ELSE WithStatus(accts, statuses, i + 1)

active_accounts(accts) == WithStatus(accts, {"evaluation", "funded"}, 1)
funded_accounts(accts) == WithStatus(accts, {"funded"}, 1)

-----------------------------------------------------------------------------
(* The unified grader of the live trade session (live_trade.py) *)

\* the table calculate_grade falls back on when settings has no position_sizing
DefaultSizing ==
    [g \in Grades |->
        CASE g = "A" -> [drawdown_pct |-> 50, label |-> "Full Size"]
          [] g = "B" -> [drawdown_pct |-> 30, label |-> "Reduced"]
          [] g = "C" -> [drawdown_pct |-> 15, label |-> "Minimum"]
          [] g = "F" -> [drawdown_pct |-> 0, label |-> "NO TRADE"]]

\* settings.get('position_sizing', {...})
Sizing(st) ==
    IF st.position_sizing = None THEN DefaultSizing ELSE st.position_sizing[1]

\* all(must_have_checked.get(f"must_{i}", False) for i in range(len(rules)))
RECURSIVE AllMustHaveFrom(_, _, _)
AllMustHaveFrom(checked, n, i) ==
    IF i >= n THEN TRUE
    ELSE IF Get(checked, i, FALSE) THEN AllMustHaveFrom(checked, n, i + 1)
         ELSE FALSE

\* the same check with any(...) in the place of all(...)
AnyMustHave(st, checked) ==
    IF st.must_have_rules > 0
    THEN \E i \in 0 .. st.must_have_rules - 1 : Get(checked, i, FALSE)
    ELSE TRUE

AllMustHave(st, checked) ==
    IF st.must_have_rules > 0
    THEN AllMustHaveFrom(checked, st.must_have_rules, 0)
    ELSE TRUE

\* any(v for v in checked.values())
AnyChecked(checked) == \E k \in DOMAIN checked : checked[k]

\* f"0% drawdown ({sizing.get('F', {}).get('label', 'NO TRADE')})"
FSizeLabel(sizing) ==
    [pct |-> 0,
     label |-> IF "F" \in DOMAIN sizing THEN sizing["F"].label ELSE "NO TRADE"]

\* sizing.get(grade, {"drawdown_pct": 0, "label": "Unknown"}), formatted
SizeLabel(sizing, grade) ==
    LET size_info == IF grade \in DOMAIN sizing THEN sizing[grade]
                     ELSE [drawdown_pct |-> 0, label |-> "Unknown"]
    IN  [pct |-> size_info.drawdown_pct, label |-> size_info.label]

\* the chain ending in "elif any_c" with no else: grade is left unbound
UnlockedGradeNoDefault(a, b, c) ==
    IF AnyChecked(a) THEN "A"
    ELSE IF AnyChecked(b) THEN "B"
    ELSE IF AnyChecked(c) THEN "C"
    ELSE "unbound"

\* the chain with the B test ahead of the A test
UnlockedGradeBFirst(a, b, c) ==
    IF AnyChecked(b) THEN "B"
    ELSE IF AnyChecked(a) THEN "A"
    ELSE "C"

\* if any_a: "A" elif any_b: "B" else: "C"
UnlockedGrade(a, b, c) ==
    IF AnyChecked(a) THEN "A"
    ELSE IF AnyChecked(b) THEN "B"
    ELSE "C"

\* LiveTradeSession.calculate_grade: (grade, size_label); the size label
\* f"{pct}% drawdown ({label})" is kept as its two parts
calculate_grade(st, must, a, b, c) ==
    IF ~AllMustHave(st, must)
    THEN [grade |-> "F", size |-> FSizeLabel(Sizing(st))]
    ELSE LET grade == UnlockedGrade(a, b, c)
         IN  [grade |-> grade, size |-> SizeLabel(Sizing(st), grade)]

-----------------------------------------------------------------------------
(* The tiered grader of the trade journal (trade_journal.py) *)

\* every rule counted as mandatory, its flag ignored
AlwaysMandatory(rule) == TRUE

\* rule.get('mandatory', True)
IsMandatory(rule) ==
    IF "mandatory" \in DOMAIN rule THEN rule.mandatory ELSE TRUE

\* get_mandatory_compliance: the list of compliance.get(rule_text, False)
\* over the mandatory rules, in order
RECURSIVE get_mandatory_compliance(_, _)
get_mandatory_compliance(rules, compliance) ==
    IF rules = <<>> THEN <<>>
    ELSE LET rule == Head(rules)
             rest == get_mandatory_compliance(Tail(rules), compliance)
         IN  IF IsMandatory(rule)
             THEN <<Get(compliance, rule.text, FALSE)>> \o rest
             ELSE rest

\* all(list)
All(l) == \A i \in 1 .. Len(l) : l[i]

\* not l or all(l)
TierDone(l) == Len(l) = 0 \/ All(l)

\* TradeJournal.calculate_grade
journal_calculate_grade(rules_c_met, rules_b_met, rules_a_met, rules_c, rules_b, rules_a) ==
    LET c_mandatory == get_mandatory_compliance(rules_c, rules_c_met)
        b_mandatory == get_mandatory_compliance(rules_b, rules_b_met)
        a_mandatory == get_mandatory_compliance(rules_a, rules_a_met)
        c_complete == TierDone(c_mandatory)
        b_complete == TierDone(b_mandatory)
        a_complete == TierDone(a_mandatory)
    IN  IF Len(c_mandatory) > 0 /\ ~All(c_mandatory) THEN "F"
        ELSE IF c_complete /\ b_complete /\ a_complete THEN "A"
        ELSE IF c_complete /\ b_complete THEN "B"
        ELSE IF c_complete THEN "C"
        ELSE "F"

-----------------------------------------------------------------------------
(* The live trade session (LiveTradeSession.render_sidebar) *)

RuleCount(st, kind) ==
    CASE kind = "must" -> st.must_have_rules
      [] kind = "a" -> st.a_rules
      [] kind = "b" -> st.b_rules
      [] kind = "c" -> st.c_rules

\* render_sidebar returns before drawing anything when no rule is configured
RulesConfigured(st) ==
    st.must_have_rules > 0 \/ st.a_rules > 0 \/ st.b_rules > 0 \/ st.c_rules > 0

NoEntry ==
    [grade |-> "?", must_have |-> EmptyDict, a |-> EmptyDict,
     b |-> EmptyDict, c |-> EmptyDict]

\* "Start": disabled while a session is active
Start ==
    /\ RulesConfigured(settings)
    /\ ~live_trade_active
    /\ live_trade_active' = TRUE
    /\ must_have_checked' = AllFalse(settings.must_have_rules)
    /\ a_checked' = AllFalse(settings.a_rules)
    /\ b_checked' = AllFalse(settings.b_rules)
    /\ c_checked' = AllFalse(settings.c_rules)
    /\ UNCHANGED <<ledgerVars, otherFiles, settings, show_trade_entry_form,
                   trade_entry, envVars, counters, graderVars>>

\* "Clear": disabled unless a session is active
Clear ==
    /\ RulesConfigured(settings)
    /\ live_trade_active
    /\ live_trade_active' = FALSE
    /\ must_have_checked' = EmptyDict
    /\ a_checked' = EmptyDict
    /\ b_checked' = EmptyDict
    /\ c_checked' = EmptyDict
    /\ UNCHANGED <<ledgerVars, otherFiles, settings, show_trade_entry_form,
                   trade_entry, envVars, counters, graderVars>>

\* one rule checkbox of the sidebar is clicked
Toggle ==
    /\ RulesConfigured(settings)
    /\ live_trade_active
    /\ \E kind \in {"must", "a", "b", "c"} :
         \E i \in 0 .. RuleCount(settings, kind) - 1 :
            /\ must_have_checked' =
                 IF kind = "must"
                 THEN Put(must_have_checked, i, ~Get(must_have_checked, i, FALSE))
                 ELSE must_have_checked
            /\ a_checked' =
                 IF kind = "a" THEN Put(a_checked, i, ~Get(a_checked, i, FALSE))
                 ELSE a_checked
            /\ b_checked' =
                 IF kind = "b" THEN Put(b_checked, i, ~Get(b_checked, i, FALSE))
                 ELSE b_checked
            /\ c_checked' =
                 IF kind = "c" THEN Put(c_checked, i, ~Get(c_checked, i, FALSE))
                 ELSE c_checked
    /\ UNCHANGED <<ledgerVars, otherFiles, settings, live_trade_active,
                   show_trade_entry_form, trade_entry, envVars, counters, graderVars>>

\* an entry that takes the checked rules and leaves the grade unset
TradeEntryNoGrade(grade, must, a, b, c) ==
    [grade |-> "?", must_have |-> must, a |-> a, b |-> b, c |-> c]

\* trade_entry_grade = grade; trade_entry_must_have = must_have_checked.copy()
\* and so on for a, b, c
TradeEntry(grade, must, a, b, c) ==
    [grade |-> grade, must_have |-> must, a |-> a, b |-> b, c |-> c]

\* "Log This Trade": the grade shown and the checked rules are copied
LogThisTrade ==
    /\ RulesConfigured(settings)
    /\ live_trade_active
    /\ show_trade_entry_form' = TRUE
    /\ trade_entry' =
         TradeEntry(calculate_grade(settings, must_have_checked, a_checked,
                                    b_checked, c_checked).grade,
                    must_have_checked, a_checked, b_checked, c_checked)
    /\ UNCHANGED <<ledgerVars, otherFiles, settings, live_trade_active,
                   must_have_checked, a_checked, b_checked, c_checked,
                   envVars, counters, graderVars>>

-----------------------------------------------------------------------------
(* Trades *)

\* DataStorage.add_trade: the id is the current time, to the second
add_trade(ts, trade, t) ==
    save_data("trades", ts, Append(ts, [trade EXCEPT !.id = t]))

\* all_accounts[i]['current_balance'] = acc.get('current_balance', ...) + pnl_net
ApplyTradePnl(accts, number, pnl_net) == AddToBalance(accts, number, pnl_net)

\* the direction typed into a free text field
DirectionInputsFree == {"Long", "Short", "Flat"}

\* st.selectbox("Direction", ["Long", "Short"])
DirectionInputs == {"Long", "Short"}

\* the account selectbox: an index into the active accounts, or 0 for the
\* None the form holds when there is no active account
AccountChoices(accts) ==
    IF Len(active_accounts(accts)) = 0 THEN {0}
    ELSE 1 .. Len(active_accounts(accts))

\* if submit and selected_account and active_accounts
CanSubmit(accts, sel) == sel # 0 /\ Len(active_accounts(accts)) > 0

\* "Save Trade" of the trade entry form (render_trade_entry_modal), submitted
\* with the given field values: the balance is updated, the trade is added and
\* the live session is cleared; without a selected account nothing happens
SaveTradeForm(sel, direction, pnl_gross, commission) ==
    IF ~CanSubmit(accounts, sel)
    THEN UNCHANGED <<accounts, trades, sessionVars>>
    ELSE LET selected_acc == accounts[active_accounts(accounts)[sel]]
             pnl_net == pnl_gross - commission
             trade_data ==
                 [id |-> 0,
                  account_id |-> selected_acc.account_number,
                  direction |-> direction,
                  pnl_gross |-> pnl_gross,
                  commission |-> commission,
                  pnl_net |-> pnl_net,
                  pnl |-> None,
                  grade |-> trade_entry.grade,
                  must_have_compliance |-> trade_entry.must_have,
                  a_compliance |-> trade_entry.a,
                  b_compliance |-> trade_entry.b,
                  c_compliance |-> trade_entry.c,
                  rule_compliance |-> None,
                  updated |-> FALSE]
         IN  /\ accounts' = save_data("accounts", accounts,
                                ApplyTradePnl(accounts,
                                    selected_acc.account_number, pnl_net))
             /\ trades' = add_trade(trades, trade_data, now)
             /\ show_trade_entry_form' = FALSE
             /\ live_trade_active' = FALSE
             /\ must_have_checked' = EmptyDict
             /\ a_checked' = EmptyDict
             /\ b_checked' = EmptyDict
             /\ c_checked' = EmptyDict
             /\ UNCHANGED trade_entry

\* "Save Trade" pressed on the form main() draws while show_trade_entry_form
SaveTrade ==
    /\ show_trade_entry_form
    /\ Len(trades) < MaxTrades
    /\ nlogged < MaxLogged
    /\ \E sel \in AccountChoices(accounts) :
       \E direction \in DirectionInputs :
       \E pnl_gross \in GrossValues :
       \E commission \in CommissionValues :
          /\ SaveTradeForm(sel, direction, pnl_gross, commission)
          /\ nlogged' = IF CanSubmit(accounts, sel) THEN nlogged + 1 ELSE nlogged
    /\ UNCHANGED <<withdrawals, otherFiles, settings, envVars, nsubmitted,
                   graderVars>>

\* a cancel branch that clears the session as the submit branch does
CancelFormClearing ==
    /\ show_trade_entry_form' = FALSE
    /\ live_trade_active' = FALSE
    /\ must_have_checked' = EmptyDict
    /\ a_checked' = EmptyDict
    /\ b_checked' = EmptyDict
    /\ c_checked' = EmptyDict
    /\ UNCHANGED <<ledgerVars, trade_entry>>

\* if cancel: st.session_state.show_trade_entry_form = False; st.rerun()
CancelForm ==
    /\ show_trade_entry_form' = FALSE
    /\ UNCHANGED <<ledgerVars, live_trade_active, must_have_checked,
                   a_checked, b_checked, c_checked, trade_entry>>

\* "Cancel" of the trade entry form
Cancel ==
    /\ show_trade_entry_form
    /\ CancelForm
    /\ UNCHANGED <<otherFiles, settings, envVars, counters, graderVars>>

\* the checkboxes of one tier of the edit form: one bool per rule text
ComplianceInputs(rules) == [{rules[i].text : i \in 1 .. Len(rules)} -> BOOLEAN]

\* "Save Changes" of TradeJournal.edit_trades: the trade record is rewritten
\* and saved, the accounts are not loaded.  The journal page is drawn only
\* while the trade entry form is not (main.py).
EditTrade ==
    /\ ~show_trade_entry_form
    /\ Len(playbooks) > 0
    /\ \E selected_idx \in 1 .. Len(trades) :
       \E pb \in 1 .. Len(playbooks) :
       \E edit_pnl \in EditPnlValues :
          LET trade == trades[selected_idx]
              playbook == playbooks[pb]
          IN  \E edit_c \in ComplianceInputs(playbook.rules_c) :
              \E edit_b \in ComplianceInputs(playbook.rules_b) :
              \E edit_a \in ComplianceInputs(playbook.rules_a) :
                 LET new_grade == journal_calculate_grade(edit_c, edit_b, edit_a,
                                      playbook.rules_c, playbook.rules_b,
                                      playbook.rules_a)
                 IN  trades' = save_data("trades", trades,
                                   [trades EXCEPT ![selected_idx] =
                                     [trade EXCEPT
                                        !.pnl = Some(edit_pnl),
                                        !.grade = new_grade,
                                        !.rule_compliance =
                                            Some([c |-> edit_c, b |-> edit_b,
                                                  a |-> edit_a]),
                                        !.updated = TRUE]])
    /\ UNCHANGED <<accounts, withdrawals, otherFiles, settings, sessionVars, envVars, counters,
                   graderVars>>

\* "Delete Trade" of TradeJournal.edit_trades: trades.pop, save_trades
DeleteTrade ==
    /\ ~show_trade_entry_form
    /\ Len(playbooks) > 0
    /\ \E selected_idx \in 1 .. Len(trades) :
          trades' = save_data("trades", trades, RemoveAt(trades, selected_idx))
    /\ UNCHANGED <<accounts, withdrawals, otherFiles, settings, sessionVars, envVars, counters,
                   graderVars>>

-----------------------------------------------------------------------------
(* Withdrawals *)

\* DataStorage.add_withdrawal (the revision kept under .ipynb_checkpoints;
\* config_manager.py calls it): the id is the position in the list
add_withdrawal(ws, withdrawal) ==
    save_data("withdrawals", ws, Append(ws, [withdrawal EXCEPT !.id = Len(ws) + 1]))

\* all_accounts[i]['current_balance'] = current_bal - amount
DeductWithdrawal(accts, number, amount) == AddToBalance(accts, number, -amount)

\* remaining != 0 lets only the over-allocated form through to st.error
AllocationNotOver(amount, alloc) ==
    amount - (alloc[1] + alloc[2] + alloc[3] + alloc[4]) >= 0

\* allocated = debt + reinvest + savings + personal; remaining = amount -
\* allocated; the form is accepted when remaining is 0
AllocationExact(amount, alloc) ==
    amount - (alloc[1] + alloc[2] + alloc[3] + alloc[4]) = 0

\* the submit branch of "Log Withdrawal": st.error and nothing written when
\* the allocation is not exact, else add_withdrawal and the deduction
log_withdrawal(ws, accts, number, amount, withdrawal_date, status, alloc) ==
    IF ~AllocationExact(amount, alloc)
    THEN [error |-> TRUE, withdrawals |-> ws, accounts |-> accts]
    ELSE LET withdrawal_data ==
                 [id |-> 0,
                  account_id |-> number,
                  amount |-> amount,
                  date |-> withdrawal_date,
                  status |-> Some(status),
                  allocations |-> Some([debt |-> alloc[1],
                                        reinvestment |-> alloc[2],
                                        savings |-> alloc[3],
                                        personal |-> alloc[4]]),
                  updated |-> FALSE]
         IN  [error |-> FALSE,
              withdrawals |-> add_withdrawal(ws, withdrawal_data),
              accounts |-> save_data("accounts", accts,
                              DeductWithdrawal(accts, number, amount))]

\* "Log Withdrawal" of ConfigManager.manage_withdrawals; "Withdrawal Date" is
\* left at the default of st.date_input, today
RecordWithdrawal ==
    /\ ~show_trade_entry_form
    /\ Len(withdrawals) < MaxWithdrawals
    /\ LET funded == funded_accounts(accounts)
       IN  \E sel \in 1 .. Len(funded) :
           \E amount \in AmountValues :
           \E status \in StatusInputs :
           \E alloc \in AllocInputs :
              LET selected_acc == accounts[funded[sel]]
                  done == log_withdrawal(withdrawals, accounts,
                              selected_acc.account_number, amount, today,
                              status, alloc)
              IN  /\ withdrawals' = done.withdrawals
                  /\ accounts' = done.accounts
    /\ UNCHANGED <<trades, otherFiles, settings, sessionVars, envVars, counters,
                   graderVars>>

\* the edited amount deducted without giving the old amount back
AdjustForEditNoReverse(accts, number, old_amount, edited_amount) ==
    AddToBalance(accts, number, -edited_amount)

\* accounts[j]['current_balance'] -= amount_difference, if it is not 0
AdjustForEdit(accts, number, old_amount, edited_amount) ==
    LET amount_difference == edited_amount - old_amount
    IN  IF amount_difference # 0
        THEN AddToBalance(accts, number, -amount_difference)
        ELSE accts

\* "Save Changes" of a withdrawal (manage_withdrawals of the revision kept under
\* .ipynb_checkpoints): the record is rebuilt without status and allocations
EditWithdrawal ==
    /\ ~show_trade_entry_form
    /\ \E i \in 1 .. Len(withdrawals) :
       \E edited_amount \in AmountValues :
          LET withdrawal == withdrawals[i]
          IN  /\ withdrawals' = save_data("withdrawals", withdrawals,
                                   [withdrawals EXCEPT ![i] =
                                   [id |-> withdrawal.id,
                                    account_id |-> withdrawal.account_id,
                                    amount |-> edited_amount,
                                    date |-> withdrawal.date,
                                    status |-> None,
                                    allocations |-> None,
                                    updated |-> TRUE]])
              /\ accounts' = save_data("accounts", accounts,
                                 AdjustForEdit(accounts, withdrawal.account_id,
                                               withdrawal.amount, edited_amount))
    /\ UNCHANGED <<trades, otherFiles, settings, sessionVars, envVars, counters,
                   graderVars>>

\* accounts[j]['current_balance'] += withdrawal['amount']
RestoreWithdrawal(accts, number, amount) == AddToBalance(accts, number, amount)

\* "Delete Withdrawal" (same revision)
DeleteWithdrawal ==
    /\ ~show_trade_entry_form
    /\ \E i \in 1 .. Len(withdrawals) :
          /\ accounts' = save_data("accounts", accounts,
                             RestoreWithdrawal(accounts, withdrawals[i].account_id,
                                               withdrawals[i].amount))
          /\ withdrawals' = save_data("withdrawals", withdrawals,
                                RemoveAt(withdrawals, i))
    /\ UNCHANGED <<trades, otherFiles, settings, sessionVars, envVars, counters,
                   graderVars>>

\* the number of records that sorted(withdrawals, key=date, reverse=True) puts
\* before the record stored at k: the later ones and, the sort being stable,
\* the equally dated ones stored before it
ShownBefore(ws, k) ==
    Cardinality({j \in 1 .. Len(ws) :
                    \/ ws[j].date > ws[k].date
                    \/ ws[j].date = ws[k].date /\ j < k})

\* the stored position of the record the history shows at position i
\* (positions counted from 1)
Shown(ws, i) == CHOOSE k \in 1 .. Len(ws) : ShownBefore(ws, k) = i - 1

StatusChoices == {"pending", "approved", "paid", "rejected"}

\* "Update" in the expander at position i of the history, the selectbox set
\* to new_status: withdrawals[i]['status'] = new_status; save_withdrawals
UpdateStatusAt(i, new_status) ==
    /\ ~show_trade_entry_form
    /\ i \in 1 .. Len(withdrawals)
    /\ Some(new_status) # withdrawals[Shown(withdrawals, i)].status
    /\ withdrawals' = save_data("withdrawals", withdrawals,
                          [withdrawals EXCEPT ![i].status = Some(new_status)])
    /\ UNCHANGED <<accounts, trades, otherFiles, settings, sessionVars, envVars,
                   counters, graderVars>>

UpdateStatus ==
    \E i \in 1 .. Len(withdrawals) :
    \E new_status \in StatusChoices :
        UpdateStatusAt(i, new_status)

-----------------------------------------------------------------------------
(* The ledger: accounts, trades and withdrawals under the live session *)

InitAccounts ==
    <<[account_number |-> 1, status |-> "funded",
       current_balance |-> InitialBalance],
      [account_number |-> 2, status |-> "evaluation",
       current_balance |-> InitialBalance],
      [account_number |-> 3, status |-> "blown",
       current_balance |-> InitialBalance]>>

InitPlaybooks ==
    <<[name |-> "Main Setup",
       rules_c |-> <<[text |-> 1, mandatory |-> TRUE]>>,
       rules_b |-> <<>>,
       rules_a |-> <<>>]>>

\* the clock at its start, no other session running
InitClock ==
    /\ now = 0
    /\ today = 0
    /\ inflight = <<>>

\* ... and every file writable
InitEnv ==
    /\ InitClock
    /\ unwritable = {}

InitSession ==
    /\ live_trade_active = FALSE
    /\ must_have_checked = EmptyDict
    /\ a_checked = EmptyDict
    /\ b_checked = EmptyDict
    /\ c_checked = EmptyDict
    /\ show_trade_entry_form = FALSE
    /\ trade_entry = NoEntry

Init ==
    /\ accounts = InitAccounts
    /\ trades = <<>>
    /\ withdrawals = <<>>
    /\ playbooks = InitPlaybooks
    /\ prop_firms = <<>>
    /\ checkins = <<>>
    /\ settings = [must_have_rules |-> 1, a_rules |-> 0, b_rules |-> 0,
                   c_rules |-> 0, position_sizing |-> None,
                   enforce_clearance |-> None]
    /\ InitSession
    /\ InitEnv
    /\ nlogged = 0
    /\ nsubmitted = 0
    /\ gin = None
    /\ gout = None

Next ==
    \/ Start
    \/ Clear
    \/ Toggle
    \/ LogThisTrade
    \/ SaveTrade
    \/ Cancel
    \/ EditTrade
    \/ DeleteTrade
    \/ RecordWithdrawal
    \/ EditWithdrawal
    \/ DeleteWithdrawal

Spec == Init /\ [][Next]_vars

-----------------------------------------------------------------------------
(* Logging trades and withdrawals on a disk where some files cannot be      *)
(* written (read-only file, full disk): save_data swallows the exception    *)

\* the files that may be unwritable; withdrawals.json is left writable, as a
\* withdrawal that is never stored can be submitted and deducted without end
FaultyFiles == {"accounts", "trades"}

InitFaulty ==
    /\ accounts = InitAccounts
    /\ trades = <<>>
    /\ withdrawals = <<>>
    /\ playbooks = InitPlaybooks
    /\ prop_firms = <<>>
    /\ checkins = <<>>
    /\ settings = [must_have_rules |-> 1, a_rules |-> 0, b_rules |-> 0,
                   c_rules |-> 0, position_sizing |-> None,
                   enforce_clearance |-> None]
    /\ InitSession
    /\ now = 0
    /\ today = 0
    /\ unwritable \in SUBSET FaultyFiles
    /\ inflight = <<>>
    /\ nlogged = 0
    /\ nsubmitted = 0
    /\ gin = None
    /\ gout = None

NextFaulty ==
    \/ Start
    \/ Clear
    \/ Toggle
    \/ LogThisTrade
    \/ SaveTrade
    \/ Cancel
    \/ RecordWithdrawal

SpecFaulty == InitFaulty /\ [][NextFaulty]_vars

-----------------------------------------------------------------------------
(* The withdrawal handlers on their own, with two funded accounts *)

InitWithdrawals ==
    /\ accounts = [InitAccounts EXCEPT ![2].status = "funded"]
    /\ trades = <<>>
    /\ withdrawals = <<>>
    /\ playbooks = InitPlaybooks
    /\ prop_firms = <<>>
    /\ checkins = <<>>
    /\ settings = [must_have_rules |-> 1, a_rules |-> 0, b_rules |-> 0,
                   c_rules |-> 0, position_sizing |-> None,
                   enforce_clearance |-> None]
    /\ InitSession
    /\ InitEnv
    /\ nlogged = 0
    /\ nsubmitted = 0
    /\ gin = None
    /\ gout = None

NextWithdrawals ==
    \/ RecordWithdrawal
    \/ EditWithdrawal
    \/ DeleteWithdrawal

SpecWithdrawals == InitWithdrawals /\ [][NextWithdrawals]_vars

-----------------------------------------------------------------------------
(* The two graders on their own: every rule configuration and every         *)
(* combination of checkboxes within the bounds is graded once.              *)

\* position_sizing as the settings screens and import_all_data can leave it:
\* absent, saved by manage_position_sizing (F is written as 0 / NO TRADE),
\* and two imported tables, one with its own F entry, one with grades missing
SizingSamples ==
    { None,
      Some([g \in Grades |->
          CASE g = "A" -> [drawdown_pct |-> 40, label |-> "Big"]
            [] g = "B" -> [drawdown_pct |-> 20, label |-> "Mid"]
            [] g = "C" -> [drawdown_pct |-> 10, label |-> "Small"]
            [] g = "F" -> [drawdown_pct |-> 0, label |-> "NO TRADE"]]),
      Some([g \in Grades |->
          CASE g = "A" -> [drawdown_pct |-> 40, label |-> "Big"]
            [] g = "B" -> [drawdown_pct |-> 20, label |-> "Mid"]
            [] g = "C" -> [drawdown_pct |-> 10, label |-> "Small"]
            [] g = "F" -> [drawdown_pct |-> 5, label |-> "Tiny"]]),
      Some([g \in {"A"} |-> [drawdown_pct |-> 40, label |-> "Big"]]) }

SettingsSamples ==
    [must_have_rules : 0 .. MaxMust, a_rules : 0 .. MaxCond,
     b_rules : 0 .. MaxCond, c_rules : 0 .. MaxCond,
     position_sizing : SizingSamples, enforce_clearance : {None}]

\* dicts with some of the keys 0 .. n-1 (a key the session never set reads False)
PartialChecked(n) == UNION {[D -> BOOLEAN] : D \in SUBSET (0 .. n - 1)}

\* dicts with all the keys 0 .. n-1, as Start creates them
TotalChecked(n) == [0 .. n - 1 -> BOOLEAN]

\* rule lists of at most n rules {text, mandatory}; the text of a rule is its
\* position, so the texts of one tier differ
RuleLists(n) ==
    {[j \in 1 .. k |-> [text |-> j, mandatory |-> flags[j]]] :
        k \in 0 .. n, flags \in [1 .. n -> BOOLEAN]}

\* render_rule_checkboxes: one checkbox per rule of the tier
MetInputs(rules) == [1 .. Len(rules) -> BOOLEAN]

DefaultSettings ==
    [must_have_rules |-> 0, a_rules |-> 0, b_rules |-> 0, c_rules |-> 0,
     position_sizing |-> None, enforce_clearance |-> None]

InitGrade ==
    /\ accounts = InitAccounts
    /\ trades = <<>>
    /\ withdrawals = <<>>
    /\ playbooks = InitPlaybooks
    /\ prop_firms = <<>>
    /\ checkins = <<>>
    /\ InitSession
    /\ InitEnv
    /\ nlogged = 0
    /\ nsubmitted = 0
    /\ gout = None
    /\ \/ /\ settings \in SettingsSamples
          /\ \E must \in PartialChecked(settings.must_have_rules) :
             \E a \in TotalChecked(settings.a_rules) :
             \E b \in TotalChecked(settings.b_rules) :
             \E c \in TotalChecked(settings.c_rules) :
                gin = [kind |-> "live", must |-> must, a |-> a, b |-> b, c |-> c]
       \/ /\ settings = DefaultSettings
          /\ \E rules_c \in RuleLists(MaxRulesC) :
             \E rules_b \in RuleLists(MaxRulesB) :
             \E rules_a \in RuleLists(MaxRulesA) :
             \E c_met \in MetInputs(rules_c) :
             \E b_met \in MetInputs(rules_b) :
             \E a_met \in MetInputs(rules_a) :
                gin = [kind |-> "journal",
                       rules_c |-> rules_c, rules_b |-> rules_b,
                       rules_a |-> rules_a,
                       c_met |-> c_met, b_met |-> b_met, a_met |-> a_met]

\* render_sidebar's call of LiveTradeSession.calculate_grade
GradeLive ==
    /\ gout = None
    /\ gin.kind = "live"
    /\ gout' = Some(calculate_grade(settings, gin.must, gin.a, gin.b, gin.c))
    /\ UNCHANGED <<ledgerVars, otherFiles, settings, sessionVars, envVars, counters, gin>>

\* log_new_trade's and edit_trades' call of TradeJournal.calculate_grade
GradeJournal ==
    /\ gout = None
    /\ gin.kind = "journal"
    /\ gout' = Some([grade |-> journal_calculate_grade(gin.c_met, gin.b_met,
                                   gin.a_met, gin.rules_c, gin.rules_b,
                                   gin.rules_a)])
    /\ UNCHANGED <<ledgerVars, otherFiles, settings, sessionVars, envVars, counters, gin>>

NextGrade ==
    \/ GradeLive
    \/ GradeJournal

SpecGrade == InitGrade /\ [][NextGrade]_vars

-----------------------------------------------------------------------------
(* add_trade called while the clock runs *)

\* a second passes: datetime.now() is read anew by every call
Tick ==
    /\ now < MaxClock
    /\ now' = now + 1
    /\ UNCHANGED <<ledgerVars, otherFiles, settings, sessionVars, today,
                   unwritable, inflight, counters, graderVars>>

\* a trade as the trade entry form hands it to add_trade
FormTrade(number, direction) ==
    [id |-> 0, account_id |-> number, direction |-> direction,
     pnl_gross |-> 0, commission |-> 1, pnl_net |-> 0 - 1, pnl |-> None,
     grade |-> "C", must_have_compliance |-> EmptyDict,
     a_compliance |-> EmptyDict, b_compliance |-> EmptyDict,
     c_compliance |-> EmptyDict, rule_compliance |-> None,
     updated |-> FALSE]

\* DataStorage.add_trade called with a trade
CallAddTrade ==
    /\ Len(trades) < MaxTrades
    /\ \E number \in {1, 2} :
       \E direction \in DirectionInputs :
          trades' = add_trade(trades, FormTrade(number, direction), now)
    /\ UNCHANGED <<accounts, withdrawals, otherFiles, settings, sessionVars,
                   envVars, counters, graderVars>>

NextIds ==
    \/ CallAddTrade
    \/ DeleteTrade
    \/ Tick

SpecIds == Init /\ [][NextIds]_vars

-----------------------------------------------------------------------------
(* Grade rules of the settings page (SettingsManager._render_rule_section),  *)
(* a page main() draws while the trade entry form is not shown.  A rule list *)
(* is kept as its length: the sidebar keys its checkboxes by position.       *)

RuleKinds == {"must", "a", "b", "c"}

\* the room a rule list has in the runs explored
RuleLimit(kind) == IF kind = "must" THEN MaxMust ELSE MaxCond

\* settings[rules_key] = rules, with the list now n long
WithRuleCount(st, kind, n) ==
    CASE kind = "must" -> [st EXCEPT !.must_have_rules = n]
      [] kind = "a" -> [st EXCEPT !.a_rules = n]
      [] kind = "b" -> [st EXCEPT !.b_rules = n]
      [] kind = "c" -> [st EXCEPT !.c_rules = n]

\* the rerun after a change of the rules: an active sidebar draws one
\* checkbox per rule and stores its value under the key of its position;
\* keys of positions that no longer exist are left in the dict
Rendered(checked, n) ==
    [k \in DOMAIN checked \cup (0 .. n - 1) |-> Get(checked, k, FALSE)]

RerunSidebar(st) ==
    IF live_trade_active /\ RulesConfigured(st)
    THEN /\ must_have_checked' = Rendered(must_have_checked, st.must_have_rules)
         /\ a_checked' = Rendered(a_checked, st.a_rules)
         /\ b_checked' = Rendered(b_checked, st.b_rules)
         /\ c_checked' = Rendered(c_checked, st.c_rules)
    ELSE UNCHANGED <<must_have_checked, a_checked, b_checked, c_checked>>

\* the settings are saved and the script reruns
SaveRules(st) ==
    /\ settings' = save_settings(settings, st)
    /\ RerunSidebar(settings')
    /\ UNCHANGED <<ledgerVars, otherFiles, live_trade_active,
                   show_trade_entry_form, trade_entry, envVars, counters,
                   graderVars>>

\* the delete button of a rule: rules.pop(i)
DeleteRule ==
    /\ ~show_trade_entry_form
    /\ \E kind \in RuleKinds :
          /\ RuleCount(settings, kind) > 0
          /\ SaveRules(WithRuleCount(settings, kind,
                                     RuleCount(settings, kind) - 1))

\* the move dropdown of a rule: popped from its list, appended to the
\* target list; a must-have rule is not offered the must-have list
MoveRule ==
    /\ ~show_trade_entry_form
    /\ \E kind \in RuleKinds :
       \E target \in RuleKinds :
          /\ RuleCount(settings, kind) > 0
          /\ ~(kind = "must" /\ target = "must")
          /\ kind # target => RuleCount(settings, target) < RuleLimit(target)
          /\ LET popped == WithRuleCount(settings, kind,
                                         RuleCount(settings, kind) - 1)
             IN  SaveRules(WithRuleCount(popped, target,
                                         RuleCount(popped, target) + 1))

\* "Add" with a rule text that is not blank
AddRule ==
    /\ ~show_trade_entry_form
    /\ \E kind \in RuleKinds :
          /\ RuleCount(settings, kind) < RuleLimit(kind)
          /\ SaveRules(WithRuleCount(settings, kind,
                                     RuleCount(settings, kind) + 1))

\* one active account, a must-have rule and an A rule configured
InitRules ==
    /\ accounts = <<[account_number |-> 1, status |-> "funded",
                     current_balance |-> InitialBalance]>>
    /\ trades = <<>>
    /\ withdrawals = <<>>
    /\ playbooks = InitPlaybooks
    /\ prop_firms = <<>>
    /\ checkins = <<>>
    /\ settings = [must_have_rules |-> 1, a_rules |-> 1, b_rules |-> 0,
                   c_rules |-> 0, position_sizing |-> None,
                   enforce_clearance |-> None]
    /\ InitSession
    /\ InitEnv
    /\ nlogged = 0
    /\ nsubmitted = 0
    /\ gin = None
    /\ gout = None

\* the sidebar and the settings page
NextRules ==
    \/ Start
    \/ Clear
    \/ Toggle
    \/ DeleteRule
    \/ MoveRule
    \/ AddRule

SpecRules == InitRules /\ [][NextRules]_vars

\* the sidebar and the trade entry form
NextSession ==
    \/ Start
    \/ Clear
    \/ Toggle
    \/ LogThisTrade
    \/ SaveTrade
    \/ Cancel
    \/ DeleteRule

SpecSession == InitRules /\ [][NextSession]_vars

-----------------------------------------------------------------------------
(* Playbook rules of the journal forms *)

\* a rule as an old playbook lists it, a string, and as a tier lists it
Str(t) == [str |-> t]
Rule(t, m) == [text |-> t, mandatory |-> m]
IsStr(item) == "str" \in DOMAIN item

\* a migration that keeps the strings as optional rules
migrate_rules_optional(rules) ==
    IF rules = <<>> THEN <<>>
    ELSE IF IsStr(rules[1])
         THEN [i \in 1 .. Len(rules) |->
                  Rule(IF IsStr(rules[i]) THEN rules[i].str ELSE rules[i],
                       FALSE)]
         ELSE rules

\* migrate_rules of log_new_trade and edit_trades: the type of the first
\* item decides for the whole list
migrate_rules(rules) ==
    IF rules = <<>> THEN <<>>
    ELSE IF IsStr(rules[1])
         THEN [i \in 1 .. Len(rules) |->
                  Rule(IF IsStr(rules[i]) THEN rules[i].str ELSE rules[i],
                       TRUE)]
         ELSE rules

\* playbook.get(key, [])
GetList(field) == IF field = None THEN <<>> ELSE field[1]

\* the block after migrate_rules: the tiers of the selected playbook
MigratePlaybook(playbook) ==
    IF playbook.rules_c = None
    THEN [playbook EXCEPT
             !.rules_c = Some(migrate_rules(GetList(playbook.rules))),
             !.rules_b = Some(<<>>),
             !.rules_a = Some(<<>>)]
    ELSE [playbook EXCEPT
             !.rules_c = Some(migrate_rules(GetList(playbook.rules_c))),
             !.rules_b = Some(migrate_rules(GetList(playbook.rules_b))),
             !.rules_a = Some(migrate_rules(GetList(playbook.rules_a)))]

-----------------------------------------------------------------------------
(* Daily check-in and trading clearance *)

\* what the check-in form can be submitted with: a rested day, a day with
\* two yellow flags (short sleep, no exercise), a day with alcohol
CheckinForms ==
    { [alcohol_consumed |-> FALSE, sleep_hours |-> 8, stress_level |-> 1,
       emotional_state |-> 1, home_stress |-> 1, exercise_done |-> TRUE],
      [alcohol_consumed |-> FALSE, sleep_hours |-> 6, stress_level |-> 1,
       emotional_state |-> 1, home_stress |-> 1, exercise_done |-> FALSE],
      [alcohol_consumed |-> TRUE, sleep_hours |-> 8, stress_level |-> 1,
       emotional_state |-> 1, home_stress |-> 1, exercise_done |-> TRUE] }

\* checkin_data['date'] = today
Dated(checkin_data, d) ==
    [date |-> d,
     alcohol_consumed |-> checkin_data.alcohol_consumed,
     sleep_hours |-> checkin_data.sleep_hours,
     stress_level |-> checkin_data.stress_level,
     emotional_state |-> checkin_data.emotional_state,
     home_stress |-> checkin_data.home_stress,
     exercise_done |-> checkin_data.exercise_done]

\* [c for c in checkins if c['date'] != today]
RECURSIVE OtherDays(_, _)
OtherDays(cs, d) ==
    IF cs = <<>> THEN <<>>
    ELSE IF Head(cs).date # d
         THEN <<Head(cs)>> \o OtherDays(Tail(cs), d)
         ELSE OtherDays(Tail(cs), d)

\* a save_checkin that appends to what is stored
save_checkin_append(cs, checkin_data, d) ==
    save_data("psychological_checkins", cs, Append(cs, Dated(checkin_data, d)))

\* PsychologicalManager.save_checkin: today's record is removed, the new one
\* is dated today and appended
save_checkin(cs, checkin_data, d) ==
    save_data("psychological_checkins", cs,
              Append(OtherDays(cs, d), Dated(checkin_data, d)))

\* PsychologicalManager.get_todays_checkin: the first record dated today
RECURSIVE get_todays_checkin(_, _)
get_todays_checkin(cs, d) ==
    IF cs = <<>> THEN None
    ELSE IF Head(cs).date = d THEN Some(Head(cs))
         ELSE get_todays_checkin(Tail(cs), d)

RedFlags(c) ==
    (IF c.alcohol_consumed THEN 1 ELSE 0)
    + (IF c.sleep_hours < 6 THEN 1 ELSE 0)
    + (IF c.stress_level > 7 THEN 1 ELSE 0)
    + (IF c.emotional_state > 7 THEN 1 ELSE 0)

YellowFlags(c) ==
    (IF c.sleep_hours < 7 THEN 1 ELSE 0)
    + (IF c.home_stress > 7 THEN 1 ELSE 0)
    + (IF ~c.exercise_done THEN 1 ELSE 0)
    + (IF c.stress_level >= 5 THEN 1 ELSE 0)

\* PsychologicalManager.calculate_risk_level
calculate_risk_level(c) ==
    IF RedFlags(c) > 0 THEN "RED"
    ELSE IF YellowFlags(c) >= 2 THEN "YELLOW"
    ELSE "GREEN"

\* PsychologicalManager.get_trading_clearance
get_trading_clearance(cs, d) ==
    LET checkin == get_todays_checkin(cs, d)
    IN  IF checkin = None
        THEN [cleared |-> FALSE, status |-> "NO_CHECKIN"]
        ELSE LET risk_level == calculate_risk_level(checkin[1])
             IN  [cleared |-> risk_level # "RED", status |-> risk_level]

\* "Submit Check-In" of show_daily_checkin_form
SubmitCheckin ==
    /\ nsubmitted < MaxSubmits
    /\ \E checkin_data \in CheckinForms :
          checkins' = save_checkin(checkins, checkin_data, today)
    /\ nsubmitted' = nsubmitted + 1
    /\ UNCHANGED <<ledgerVars, playbooks, prop_firms, settings, sessionVars,
                   envVars, nlogged, graderVars>>

\* midnight passes: date.today() is the next day
NextDay ==
    /\ today < MaxDays
    /\ today' = today + 1
    /\ UNCHANGED <<ledgerVars, otherFiles, settings, sessionVars, now,
                   unwritable, inflight, counters, graderVars>>

EnforcementLevels ==
    {"Soft (Warning Only)", "Medium (Acknowledgment Required)",
     "Strict (Hard Block)"}

\* "Save Discipline Settings" of show_discipline_settings, a page drawn
\* while the trade entry form is not
SaveDisciplineSettings ==
    /\ ~show_trade_entry_form
    /\ \E enforcement \in EnforcementLevels :
          settings' = save_settings(settings,
                          [settings EXCEPT
                              !.enforce_clearance = Some(enforcement)])
    /\ UNCHANGED <<ledgerVars, otherFiles, sessionVars, envVars, counters,
                   graderVars>>

InitClearance ==
    /\ accounts = InitAccounts
    /\ trades = <<>>
    /\ withdrawals = <<>>
    /\ playbooks = InitPlaybooks
    /\ prop_firms = <<>>
    /\ checkins = <<>>
    /\ settings = [must_have_rules |-> 1, a_rules |-> 0, b_rules |-> 0,
                   c_rules |-> 0, position_sizing |-> None,
                   enforce_clearance |-> None]
    /\ InitSession
    /\ InitEnv
    /\ nlogged = 0
    /\ nsubmitted = 0
    /\ gin = None
    /\ gout = None

NextClearance ==
    \/ SubmitCheckin
    \/ NextDay
    \/ SaveDisciplineSettings
    \/ Start
    \/ Clear
    \/ Toggle
    \/ LogThisTrade
    \/ SaveTrade
    \/ Cancel

SpecClearance == InitClearance /\ [][NextClearance]_vars

\* the check-in page alone
NextCheckin ==
    \/ SubmitCheckin
    \/ NextDay

SpecCheckin == InitClearance /\ [][NextCheckin]_vars

\* the withdrawal handlers and their history, over several days
NextHistory ==
    \/ RecordWithdrawal
    \/ UpdateStatus
    \/ NextDay

SpecHistory == InitWithdrawals /\ [][NextHistory]_vars

-----------------------------------------------------------------------------
(* Two browser sessions submit the trade entry form at once.  Streamlit runs  *)
(* the script of each session in a thread of its own; the submit branch      *)
(* reads and writes the files in four steps, and inflight holds for each     *)
(* session the step it is at and its local variables.                        *)

Sessions == {1, 2}

RacePnl == {0 - 1, 2}

\* the forms as submitted: an active account and a net P&L each
RaceForms ==
    [pc : {"load_accounts"}, account_id : {1, 2}, pnl_net : RacePnl,
     all_accounts : {<<>>}, trades : {<<>>}, show_trade_entry_form : {TRUE}]

\* a save that applies the P&L to what the file holds at the save
SavedAccountsMerged(file, all_accounts, number, pnl_net) ==
    save_data("accounts", file, ApplyTradePnl(file, number, pnl_net))

\* the loop over all_accounts and save_accounts(all_accounts): what is
\* written is the list loaded earlier with the one balance changed
SavedAccounts(file, all_accounts, number, pnl_net) ==
    save_data("accounts", file, ApplyTradePnl(all_accounts, number, pnl_net))

\* trades.append(trade); save_trades(trades), on the list loaded earlier
SavedTrades(file, loaded, number, pnl_net, t) ==
    save_data("trades", file,
              Append(loaded, [id |-> t, account_id |-> number,
                              pnl_net |-> pnl_net, pnl |-> None]))

\* all_accounts = self.data_storage.load_accounts()
LoadAccountsStep ==
    \E s \in Sessions :
        /\ inflight[s].pc = "load_accounts"
        /\ inflight' = [inflight EXCEPT ![s].all_accounts = accounts,
                                        ![s].pc = "save_accounts"]
        /\ UNCHANGED <<ledgerVars, otherFiles, settings, sessionVars, now,
                       today, unwritable, counters, graderVars>>

\* self.data_storage.save_accounts(all_accounts)
SaveAccountsStep ==
    \E s \in Sessions :
        /\ inflight[s].pc = "save_accounts"
        /\ accounts' = SavedAccounts(accounts, inflight[s].all_accounts,
                            inflight[s].account_id, inflight[s].pnl_net)
        /\ inflight' = [inflight EXCEPT ![s].pc = "load_trades"]
        /\ UNCHANGED <<trades, withdrawals, otherFiles, settings, sessionVars,
                       now, today, unwritable, counters, graderVars>>

\* add_trade: trades = self.load_trades()
LoadTradesStep ==
    \E s \in Sessions :
        /\ inflight[s].pc = "load_trades"
        /\ inflight' = [inflight EXCEPT ![s].trades = trades,
                                        ![s].pc = "save_trades"]
        /\ UNCHANGED <<ledgerVars, otherFiles, settings, sessionVars, now,
                       today, unwritable, counters, graderVars>>

\* add_trade: trades.append(trade); save_trades(trades); then the session
\* is cleared and the script reruns
SaveTradesStep ==
    \E s \in Sessions :
        /\ inflight[s].pc = "save_trades"
        /\ trades' = SavedTrades(trades, inflight[s].trades,
                          inflight[s].account_id, inflight[s].pnl_net, now)
        /\ inflight' = [inflight EXCEPT ![s].pc = "done",
                                        ![s].show_trade_entry_form = FALSE]
        /\ UNCHANGED <<accounts, withdrawals, otherFiles, settings,
                       sessionVars, now, today, unwritable, counters,
                       graderVars>>

InitRace ==
    /\ accounts = InitAccounts
    /\ trades = <<>>
    /\ withdrawals = <<>>
    /\ playbooks = InitPlaybooks
    /\ prop_firms = <<>>
    /\ checkins = <<>>
    /\ settings = DefaultSettings
    /\ InitSession
    /\ now = 0
    /\ today = 0
    /\ unwritable = {}
    /\ inflight \in [Sessions -> RaceForms]
    /\ nlogged = 0
    /\ nsubmitted = 0
    /\ gin = None
    /\ gout = None

NextRace ==
    \/ LoadAccountsStep
    \/ SaveAccountsStep
    \/ LoadTradesStep
    \/ SaveTradesStep

SpecRace == InitRace /\ [][NextRace]_vars

-----------------------------------------------------------------------------
(* Backup *)

\* if key in data: self.save_<data_type>(data[key])
ImportKey(store, doc, key, data_type) ==
    IF key \in DOMAIN doc
    THEN [store EXCEPT ![data_type] = save_data(data_type, @, doc[key])]
    ELSE store

\* check-ins taken from the psychological_checkins key only
ImportCheckinsNewKeyOnly(store, doc) ==
    ImportKey(store, doc, "psychological_checkins", "psychological_checkins")

\* the check-ins of a document: psychological_checkins, elif daily_checkins
ImportCheckins(store, doc) ==
    IF "psychological_checkins" \in DOMAIN doc
    THEN ImportKey(store, doc, "psychological_checkins",
                   "psychological_checkins")
    ELSE ImportKey(store, doc, "daily_checkins", "psychological_checkins")

\* the settings of a document: a dict, or the first item of a non-empty
\* list; save_settings raises on an item that is not a dict, the except
\* clause of import_all_data catches it and False is returned
ImportSettings(store, doc) ==
    IF "settings" \notin DOMAIN doc
    THEN [ok |-> TRUE, store |-> store]
    ELSE CASE doc["settings"].kind \in {"dict", "list_of_dicts"} ->
                [ok |-> TRUE,
                 store |-> [store EXCEPT !.config =
                               save_settings(@, doc["settings"].value)]]
           [] doc["settings"].kind = "empty_list" ->
                [ok |-> TRUE, store |-> store]
           [] doc["settings"].kind = "list_of_numbers" ->
                [ok |-> FALSE, store |-> store]

\* DataStorage.import_all_data: the keys in the order of the code, each
\* save on the store the one before it left
import_all_data(store, doc) ==
    LET s1 == ImportKey(store, doc, "prop_firms", "prop_firms")
        s2 == ImportKey(s1, doc, "accounts", "accounts")
        s3 == ImportKey(s2, doc, "playbooks", "playbooks")
        s4 == ImportKey(s3, doc, "trades", "trades")
        s5 == ImportKey(s4, doc, "withdrawals", "withdrawals")
        s6 == ImportCheckins(s5, doc)
    IN  ImportSettings(s6, doc)

\* the files of the data directory as one record, keyed as data_files is
Store ==
    [prop_firms |-> prop_firms, accounts |-> accounts,
     playbooks |-> playbooks, trades |-> trades, withdrawals |-> withdrawals,
     psychological_checkins |-> checkins, config |-> settings]

\* load_settings answering {} whatever config.json holds
load_settings_blank(config) == DefaultSettings

\* DataStorage.load_settings: settings_data[0]; {} for an empty config.json,
\* which is the record with no rule and no key set
load_settings(config) == config

\* DataStorage.export_all_data: the six lists as loaded, the settings as a
\* list of one dict, and the time of the export
export_all_data(store) ==
    [k \in {"prop_firms", "accounts", "playbooks", "trades", "withdrawals",
            "psychological_checkins", "settings", "export_date"} |->
        CASE k = "settings" ->
                [kind |-> "list_of_dicts", value |-> load_settings(store.config)]
          [] k = "export_date" -> now
          [] OTHER -> store[k]]

\* export_all_data and then import_all_data of what it returned
RoundTrip ==
    /\ LET done == import_all_data(Store, export_all_data(Store))
       IN  /\ prop_firms' = done.store.prop_firms
           /\ accounts' = done.store.accounts
           /\ playbooks' = done.store.playbooks
           /\ trades' = done.store.trades
           /\ withdrawals' = done.store.withdrawals
           /\ checkins' = done.store.psychological_checkins
           /\ settings' = done.store.config
           /\ gout' = Some([ok |-> done.ok])
    /\ gin' = [kind |-> "roundtrip", before |-> Store]
    /\ UNCHANGED <<sessionVars, envVars, counters>>

\* a new data directory: ensure_data_files has written [] to every file that
\* was missing, config.json included; config.json may be read-only
InitBackup ==
    /\ accounts = InitAccounts
    /\ trades = <<>>
    /\ withdrawals = <<>>
    /\ playbooks = InitPlaybooks
    /\ prop_firms = <<>>
    /\ checkins = <<>>
    /\ settings = DefaultSettings
    /\ InitSession
    /\ InitClock
    /\ unwritable \in {{}, {"config"}}
    /\ nlogged = 0
    /\ nsubmitted = 0
    /\ gin = None
    /\ gout = None

NextBackup ==
    \/ RecordWithdrawal
    \/ SubmitCheckin
    \/ SaveDisciplineSettings
    \/ RoundTrip

SpecBackup == InitBackup /\ [][NextBackup]_vars

-----------------------------------------------------------------------------
(* Single calls: one form submission or storage call on a fresh store,      *)
(* its arguments in gin and what it reported in gout.                       *)

FormAmounts == {9, 10, 11}
FormAllocs == {<<1, 2, 3, 4>>, <<10, 0, 0, 0>>, <<11, 0, 0, 0>>, <<0, 0, 0, 0>>}
FormStatuses == {"pending", "approved", "paid", "rejected"}

WithdrawalForms ==
    [kind : {"withdrawal"}, sel : {1}, amount : FormAmounts,
     status : FormStatuses, alloc : FormAllocs]

\* account lists the trade entry form can meet: none, only a blown account,
\* only an inactive account, and the three accounts of the ledger
AccountStores ==
    { <<>>,
      <<[account_number |-> 3, status |-> "blown",
         current_balance |-> InitialBalance]>>,
      <<[account_number |-> 4, status |-> "inactive",
         current_balance |-> InitialBalance]>>,
      InitAccounts }

\* the trade entry form as LogThisTrade opens it
OpenEntry ==
    [grade |-> "C", must_have |-> AllFalse(0), a |-> AllFalse(0),
     b |-> AllFalse(0), c |-> AllFalse(0)]

TradeForms(accts) ==
    [kind : {"trade"}, store : {accts}, sel : AccountChoices(accts),
     direction : DirectionInputs, pnl_gross : {0, 3, 5}, commission : {0, 1}]

\* what a collection file can hold
FileSamples ==
    [kind : {"missing", "empty", "not_json", "not_text"}, data : {<<>>}]
    \cup [kind : {"json"}, data : {<<>>, <<1>>, <<1, 2>>}]

\* the encoding open(filepath, 'r') takes from the locale
Encodings == {"utf-8", "latin-1"}

LoadCalls == [kind : {"load"}, file : FileSamples, encoding : Encodings]

\* the keys import_all_data looks for
ImportKeys ==
    {"prop_firms", "accounts", "playbooks", "trades", "withdrawals",
     "psychological_checkins", "daily_checkins", "settings"}

ImportedSettings == [DefaultSettings EXCEPT !.c_rules = 1]

\* what a backup document can hold under "settings"
SettingsDocs ==
    [kind : {"dict", "list_of_dicts", "empty_list", "list_of_numbers"},
     value : {ImportedSettings}]

ImportedCheckin(d) ==
    [date |-> d, alcohol_consumed |-> FALSE, sleep_hours |-> 8,
     stress_level |-> 1, emotional_state |-> 1, home_stress |-> 1,
     exercise_done |-> TRUE]

\* what a backup document holds under a key other than "settings": a list
\* that differs from the one of the fresh store
ImportedValue(key) ==
    CASE key = "prop_firms" -> <<[name |-> "firm"]>>
      [] key = "accounts" ->
            <<[account_number |-> 5, status |-> "funded",
               current_balance |-> InitialBalance + 1]>>
      [] key = "playbooks" -> <<>>
      [] key = "trades" -> <<[id |-> 1, account_id |-> 5, pnl_net |-> 1]>>
      [] key = "withdrawals" -> <<[id |-> 1, account_id |-> 5, amount |-> 1]>>
      [] key = "psychological_checkins" -> <<ImportedCheckin(1)>>
      [] key = "daily_checkins" -> <<ImportedCheckin(2)>>

\* backup documents: any set of the keys
ImportDocs ==
    UNION {{[k \in K |-> IF k = "settings" THEN sd ELSE ImportedValue(k)] :
              sd \in SettingsDocs} : K \in SUBSET ImportKeys}

ImportCalls == [kind : {"import"}, doc : ImportDocs]

\* rule lists as playbooks.json can hold them: strings, dicts, or both
StoredItems == {Str(1), Str(2), Rule(1, FALSE)}

StoredRuleLists ==
    {<<>>} \cup {<<x>> : x \in StoredItems}
           \cup {<<x, y>> : x \in StoredItems, y \in StoredItems}

\* playbooks of the old format (rules), of the new one (rules_c, rules_b,
\* rules_a), and with keys of both
PlaybookSamples ==
    [rules : {None} \cup {Some(l) : l \in StoredRuleLists},
     rules_c : {None, Some(<<>>), Some(<<Str(1)>>), Some(<<Rule(1, FALSE)>>)},
     rules_b : {None, Some(<<Str(1)>>)},
     rules_a : {None, Some(<<Rule(1, TRUE)>>)}]

MigrateCalls == [kind : {"migrate"}, playbook : PlaybookSamples]

\* the sidebar of a session that is not active, no rule configured
IdleSidebar ==
    /\ settings = DefaultSettings
    /\ live_trade_active = FALSE
    /\ must_have_checked = EmptyDict
    /\ a_checked = EmptyDict
    /\ b_checked = EmptyDict
    /\ c_checked = EmptyDict

InitCalls ==
    /\ trades = <<>>
    /\ withdrawals = <<>>
    /\ playbooks = InitPlaybooks
    /\ prop_firms = <<>>
    /\ checkins = <<>>
    /\ InitClock
    /\ nlogged = 0
    /\ nsubmitted = 0
    /\ gout = None
    /\ \/ /\ accounts = InitAccounts
          /\ show_trade_entry_form = FALSE
          /\ trade_entry = NoEntry
          /\ unwritable = {}
          /\ IdleSidebar
          /\ gin \in WithdrawalForms
       \/ /\ accounts \in AccountStores
          /\ show_trade_entry_form = TRUE
          /\ trade_entry = OpenEntry
          /\ unwritable = {}
          /\ IdleSidebar
          /\ gin \in TradeForms(accounts)
       \/ /\ accounts = InitAccounts
          /\ show_trade_entry_form = FALSE
          /\ trade_entry = NoEntry
          /\ unwritable = {}
          /\ IdleSidebar
          /\ gin \in LoadCalls
       \/ /\ accounts = InitAccounts
          /\ show_trade_entry_form = FALSE
          /\ trade_entry = NoEntry
          /\ unwritable \in {{}, {"trades"}}
          /\ IdleSidebar
          /\ gin \in ImportCalls
       \/ /\ accounts = InitAccounts
          /\ show_trade_entry_form = FALSE
          /\ trade_entry = NoEntry
          /\ unwritable = {}
          /\ IdleSidebar
          /\ gin \in MigrateCalls
       \/ /\ accounts \in AccountStores
          /\ show_trade_entry_form = TRUE
          /\ unwritable = {}
          /\ \/ /\ IdleSidebar
                /\ trade_entry = OpenEntry
             \/ /\ settings = [DefaultSettings EXCEPT
                                  !.must_have_rules = 1, !.a_rules = 1]
                /\ live_trade_active = TRUE
                /\ must_have_checked \in TotalChecked(1)
                /\ a_checked \in TotalChecked(1)
                /\ b_checked = EmptyDict
                /\ c_checked = EmptyDict
                /\ trade_entry =
                      TradeEntry(calculate_grade(settings, must_have_checked,
                                     a_checked, b_checked, c_checked).grade,
                                 must_have_checked, a_checked, b_checked,
                                 c_checked)
          /\ gin = [kind |-> "cancel",
                    before |-> [accounts |-> accounts, trades |-> trades,
                                live_trade_active |-> live_trade_active,
                                must_have_checked |-> must_have_checked,
                                a_checked |-> a_checked,
                                b_checked |-> b_checked,
                                c_checked |-> c_checked]]

\* the "Log Withdrawal" form submitted with the values of gin
SubmitWithdrawal ==
    /\ gout = None
    /\ gin.kind = "withdrawal"
    /\ LET funded == funded_accounts(accounts)
           selected_acc == accounts[funded[gin.sel]]
           done == log_withdrawal(withdrawals, accounts,
                       selected_acc.account_number, gin.amount, today,
                       gin.status, gin.alloc)
       IN  /\ withdrawals' = done.withdrawals
           /\ accounts' = done.accounts
           /\ gout' = Some([error |-> done.error])
    /\ UNCHANGED <<trades, otherFiles, settings, sessionVars, envVars, counters, gin>>

\* the trade entry form submitted with the values of gin
SubmitTrade ==
    /\ gout = None
    /\ gin.kind = "trade"
    /\ show_trade_entry_form
    /\ SaveTradeForm(gin.sel, gin.direction, gin.pnl_gross, gin.commission)
    /\ gout' = Some([error |-> FALSE])
    /\ UNCHANGED <<withdrawals, otherFiles, settings, envVars, counters, gin>>

\* DataStorage.load_data called on the file of gin
CallLoad ==
    /\ gout = None
    /\ gin.kind = "load"
    /\ gout' = Some(load_data(gin.file, gin.encoding))
    /\ UNCHANGED <<ledgerVars, otherFiles, settings, sessionVars, envVars, counters, gin>>

\* DataStorage.import_all_data called on the document of gin
CallImport ==
    /\ gout = None
    /\ gin.kind = "import"
    /\ LET done == import_all_data(Store, gin.doc)
       IN  /\ prop_firms' = done.store.prop_firms
           /\ accounts' = done.store.accounts
           /\ playbooks' = done.store.playbooks
           /\ trades' = done.store.trades
           /\ withdrawals' = done.store.withdrawals
           /\ checkins' = done.store.psychological_checkins
           /\ settings' = done.store.config
           /\ gout' = Some([ok |-> done.ok])
    /\ UNCHANGED <<sessionVars, envVars, counters, gin>>

\* the journal form normalises the playbook of gin
CallMigrate ==
    /\ gout = None
    /\ gin.kind = "migrate"
    /\ gout' = Some(MigratePlaybook(gin.playbook))
    /\ UNCHANGED <<ledgerVars, otherFiles, settings, sessionVars, envVars,
                   counters, gin>>

\* "Cancel" pressed on the trade entry form
SubmitCancel ==
    /\ gout = None
    /\ gin.kind = "cancel"
    /\ show_trade_entry_form
    /\ CancelForm
    /\ gout' = Some([error |-> FALSE])
    /\ UNCHANGED <<otherFiles, settings, envVars, counters, gin>>

NextCalls ==
    \/ SubmitCancel
    \/ SubmitWithdrawal
    \/ SubmitTrade
    \/ CallLoad
    \/ CallImport
    \/ CallMigrate

SpecCalls == InitCalls /\ [][NextCalls]_vars

-----------------------------------------------------------------------------
(* Ledger properties *)

\* the net P&L a trade record carries: what the live form applied
\* (pnl_net), or what the journal's edit form wrote last (pnl)
TradePnl(t) == IF t.pnl # None THEN t.pnl[1] ELSE t.pnl_net

RECURSIVE SumPnl(_, _)
SumPnl(ts, number) ==
    IF ts = <<>> THEN 0
    ELSE (IF Head(ts).account_id = number THEN TradePnl(Head(ts)) ELSE 0)
         + SumPnl(Tail(ts), number)

RECURSIVE SumAmount(_, _)
SumAmount(ws, number) ==
    IF ws = <<>> THEN 0
    ELSE (IF Head(ws).account_id = number THEN Head(ws).amount ELSE 0)
         + SumAmount(Tail(ws), number)

BalanceOf(accts, number) == accts[FirstMatch(accts, number, 1)].current_balance

\* C1: after any sequence of trade log/edit/delete and withdrawal
\* record/edit/delete operations, every account's current_balance equals its
\* initial balance plus the net P&L of the trades recorded against it minus
\* the amounts of the withdrawals recorded against it.
C1_BalanceEquation ==
    \A i \in 1 .. Len(accounts) :
        accounts[i].current_balance =
            InitialBalance + SumPnl(trades, accounts[i].account_number)
                           - SumAmount(withdrawals, accounts[i].account_number)

\* C2: logging a trade with net P&L p on an account with balance X yields
\* X + p, and deleting a trade gives its net P&L back, so that a log followed
\* by the delete of that trade restores X.
C2_LogThenDeleteRestores ==
    [][(Len(trades') = Len(trades) + 1 =>
            LET t == trades'[Len(trades')]
            IN  BalanceOf(accounts', t.account_id) =
                    BalanceOf(accounts, t.account_id) + TradePnl(t))
       /\ (Len(trades') = Len(trades) - 1 =>
            \E i \in 1 .. Len(trades) :
                /\ trades' = RemoveAt(trades, i)
                /\ BalanceOf(accounts', trades[i].account_id) =
                       BalanceOf(accounts, trades[i].account_id)
                       - TradePnl(trades[i]))]_vars

\* C3: an edit that takes a trade's net P&L from p1 to p2 changes the
\* balance of the owning account by exactly p2 - p1, whatever else was
\* applied to the account since the trade was logged.
C3_EditAdjustsByDifference ==
    [][\A i \in 1 .. Len(trades) :
          (Len(trades') = Len(trades) /\ trades'[i] # trades[i]) =>
              BalanceOf(accounts', trades[i].account_id) =
                  BalanceOf(accounts, trades[i].account_id)
                  + TradePnl(trades'[i]) - TradePnl(trades[i])]_vars

-----------------------------------------------------------------------------
(* Grader properties *)

Graded == gout # None
Live == gin.kind = "live"
Journal == gin.kind = "journal"

\* C5: both graders return one of A, B, C, F for every rule configuration and
\* every combination of checked and unchecked rules.
C5_GradeTotal == Graded => gout[1].grade \in Grades

\* C5 witness: the journal grader answered B for an optional unchecked C
\* rule, a checked mandatory C rule, an empty B tier and an unchecked A rule
C5_Witness ==
    /\ Graded
    /\ Journal
    /\ Len(gin.rules_c) = 2
    /\ ~gin.rules_c[1].mandatory /\ ~gin.c_met[1]
    /\ gin.rules_c[2].mandatory /\ gin.c_met[2]
    /\ Len(gin.rules_b) = 0
    /\ Len(gin.rules_a) = 1 /\ gin.rules_a[1].mandatory /\ ~gin.a_met[1]
    /\ gout[1].grade = "B"

\* a configured must-have rule whose checkbox is not checked
SomeMustHaveUnchecked ==
    \E i \in 0 .. settings.must_have_rules - 1 :
        i \notin DOMAIN gin.must \/ ~gin.must[i]

\* C6: in the unified grader, one configured must-have rule left unchecked
\* makes the grade F whatever A, B and C rules are checked.
C6_FDominance == (Graded /\ Live /\ SomeMustHaveUnchecked) => gout[1].grade = "F"

\* C6 witness: two must-have rules, the second unchecked, with an A, a B and
\* a C rule all checked, graded F
C6_Witness ==
    /\ Graded
    /\ Live
    /\ settings.must_have_rules = 2
    /\ 0 \in DOMAIN gin.must /\ gin.must[0]
    /\ 1 \in DOMAIN gin.must /\ ~gin.must[1]
    /\ settings.a_rules = 1 /\ gin.a[0]
    /\ settings.b_rules = 1 /\ gin.b[0]
    /\ settings.c_rules = 1 /\ gin.c[0]
    /\ gout[1].grade = "F"

\* a tier is complete when every rule of it flagged mandatory is checked
TierComplete(rules, met) ==
    \A j \in 1 .. Len(rules) :
        rules[j].mandatory => (rules[j].text \in DOMAIN met /\ met[rules[j].text])

\* C7: in the tiered grader, C incomplete gives F; C complete and B
\* incomplete gives C whatever the state of A; C and B complete and A
\* incomplete gives B; all three complete gives A.
C7_TierMonotonicity ==
    (Graded /\ Journal) =>
        LET c_done == TierComplete(gin.rules_c, gin.c_met)
            b_done == TierComplete(gin.rules_b, gin.b_met)
            a_done == TierComplete(gin.rules_a, gin.a_met)
        IN  /\ ~c_done => gout[1].grade = "F"
            /\ (c_done /\ ~b_done) => gout[1].grade = "C"
            /\ (c_done /\ b_done /\ ~a_done) => gout[1].grade = "B"
            /\ (c_done /\ b_done /\ a_done) => gout[1].grade = "A"

\* C7 witness: C complete through a checked mandatory rule and an unchecked
\* optional one, B incomplete, A complete: graded C
C7_Witness ==
    /\ Graded
    /\ Journal
    /\ Len(gin.rules_c) = 2
    /\ gin.rules_c[1].mandatory /\ gin.c_met[1]
    /\ ~gin.rules_c[2].mandatory /\ ~gin.c_met[2]
    /\ Len(gin.rules_b) = 1 /\ gin.rules_b[1].mandatory /\ ~gin.b_met[1]
    /\ Len(gin.rules_a) = 1 /\ gin.rules_a[1].mandatory /\ gin.a_met[1]
    /\ gout[1].grade = "C"

\* C8: in the unified grader with every must-have rule checked, the grade is
\* the highest one a checked condition unlocks: B and C conditions together
\* give B, any A condition gives A, no checked condition gives C.
C8_UnifiedOrdering ==
    (Graded /\ Live /\ ~SomeMustHaveUnchecked) =>
        LET a_on == \E k \in DOMAIN gin.a : gin.a[k]
            b_on == \E k \in DOMAIN gin.b : gin.b[k]
            c_on == \E k \in DOMAIN gin.c : gin.c[k]
        IN  /\ a_on => gout[1].grade = "A"
            /\ (b_on /\ ~a_on) => gout[1].grade = "B"
            /\ (c_on /\ ~b_on /\ ~a_on) => gout[1].grade = "C"
            /\ (~c_on /\ ~b_on /\ ~a_on) => gout[1].grade = "C"

\* C8 witness: both must-have rules checked, a B and a C condition checked,
\* the A condition not: graded B
C8_Witness ==
    /\ Graded
    /\ Live
    /\ settings.must_have_rules = 2
    /\ ~SomeMustHaveUnchecked
    /\ settings.a_rules = 1 /\ ~gin.a[0]
    /\ settings.b_rules = 1 /\ gin.b[0]
    /\ settings.c_rules = 1 /\ gin.c[0]
    /\ gout[1].grade = "B"

\* no must-have rule and no tier rule or condition is configured
NoRulesConfigured ==
    IF Live
    THEN ~RulesConfigured(settings)
    ELSE gin.rules_c = <<>> /\ gin.rules_b = <<>> /\ gin.rules_a = <<>>

\* C9: with no rules configured at all, the grade is C under the unified
\* strategy and under the tiered strategy alike.
C9_EmptyRulesGradeC == (Graded /\ NoRulesConfigured) => gout[1].grade = "C"

\* C10: whenever the grade is F, the size policy returned is 0% drawdown
\* labelled NO TRADE, whatever the position_sizing table holds.
C10_FMeansNoTrade ==
    (Graded /\ Live /\ gout[1].grade = "F") =>
        gout[1].size = [pct |-> 0, label |-> "NO TRADE"]

\* two compliance inputs of one tier give every mandatory rule the same state
AgreeOnMandatory(rules, met, other) ==
    \A j \in 1 .. Len(rules) : rules[j].mandatory => (met[j] = other[j])

\* C21: in the tiered grader, two compliance inputs for the same playbook
\* that agree on every mandatory rule of tiers C, B and A receive the same
\* grade, whatever optional rules are checked in either.
C21_OptionalRulesIgnored ==
    (Graded /\ Journal) =>
        \A c_met \in MetInputs(gin.rules_c) :
        \A b_met \in MetInputs(gin.rules_b) :
        \A a_met \in MetInputs(gin.rules_a) :
            (/\ AgreeOnMandatory(gin.rules_c, gin.c_met, c_met)
             /\ AgreeOnMandatory(gin.rules_b, gin.b_met, b_met)
             /\ AgreeOnMandatory(gin.rules_a, gin.a_met, a_met)) =>
                journal_calculate_grade(c_met, b_met, a_met, gin.rules_c,
                                        gin.rules_b, gin.rules_a)
                    = gout[1].grade

\* C21 witness: tier C has a checked mandatory rule and a checked optional
\* one, tier B an unchecked optional rule; the grade is the one the input
\* with the optional rules flipped receives
C21_Witness ==
    /\ Graded
    /\ Journal
    /\ Len(gin.rules_c) = 2
    /\ gin.rules_c[1].mandatory /\ gin.c_met[1]
    /\ ~gin.rules_c[2].mandatory /\ gin.c_met[2]
    /\ Len(gin.rules_b) = 1 /\ ~gin.rules_b[1].mandatory /\ ~gin.b_met[1]
    /\ Len(gin.rules_a) = 1 /\ gin.rules_a[1].mandatory /\ ~gin.a_met[1]
    /\ gout[1].grade = "B"
    /\ journal_calculate_grade([gin.c_met EXCEPT ![2] = FALSE],
                               [gin.b_met EXCEPT ![1] = TRUE], gin.a_met,
                               gin.rules_c, gin.rules_b, gin.rules_a) = "B"

\* the order F < C < B < A
Rank(g) == CASE g = "F" -> 0 [] g = "C" -> 1 [] g = "B" -> 2 [] g = "A" -> 3

\* every rule checked in one input is checked in the other
CheckedWithin(checked, more) ==
    \A k \in DOMAIN checked : checked[k] => (k \in DOMAIN more /\ more[k])

\* C28: checking additional rules never lowers the grade, in the unified
\* grader and in the tiered grader, for every rule configuration.
C28_GradeMonotone ==
    /\ (Graded /\ Live) =>
          \A must \in PartialChecked(settings.must_have_rules) :
          \A a \in TotalChecked(settings.a_rules) :
          \A b \in TotalChecked(settings.b_rules) :
          \A c \in TotalChecked(settings.c_rules) :
              (/\ CheckedWithin(gin.must, must) /\ CheckedWithin(gin.a, a)
               /\ CheckedWithin(gin.b, b) /\ CheckedWithin(gin.c, c)) =>
                  Rank(gout[1].grade)
                      <= Rank(calculate_grade(settings, must, a, b, c).grade)
    /\ (Graded /\ Journal) =>
          \A c_met \in MetInputs(gin.rules_c) :
          \A b_met \in MetInputs(gin.rules_b) :
          \A a_met \in MetInputs(gin.rules_a) :
              (/\ CheckedWithin(gin.c_met, c_met)
               /\ CheckedWithin(gin.b_met, b_met)
               /\ CheckedWithin(gin.a_met, a_met)) =>
                  Rank(gout[1].grade)
                      <= Rank(journal_calculate_grade(c_met, b_met, a_met,
                                  gin.rules_c, gin.rules_b, gin.rules_a))

\* C28 witness: the unified grader gave B with the B condition checked and
\* the A condition not, and gives A once the A condition is checked as well
C28_Witness ==
    /\ Graded
    /\ Live
    /\ settings.must_have_rules = 1 /\ Get(gin.must, 0, FALSE)
    /\ settings.a_rules = 1 /\ ~gin.a[0]
    /\ settings.b_rules = 1 /\ gin.b[0]
    /\ gout[1].grade = "B"
    /\ calculate_grade(settings, gin.must, [gin.a EXCEPT ![0] = TRUE],
                       gin.b, gin.c).grade = "A"

-----------------------------------------------------------------------------
(* Session properties *)

\* the call of gin has been made
Called(kind) == gout # None /\ gin.kind = kind

\* C22: a trade saved through the trade entry form stores the grade the
\* unified grader gives to the compliance maps stored on that trade, under
\* the rules configured when it was entered, whatever was toggled or
\* cleared in the sidebar in between.
C22_StoredGradeMatchesMaps ==
    [][Len(trades') = Len(trades) + 1 =>
          LET t == trades'[Len(trades')]
          IN  t.grade = calculate_grade(settings, t.must_have_compliance,
                            t.a_compliance, t.b_compliance,
                            t.c_compliance).grade]_vars

\* C22 witness: a trade graded A with its must-have and A rule checked is
\* stored and a second entry, graded F, is open
C22_Witness ==
    /\ Len(trades) = 1
    /\ trades[1].grade = "A"
    /\ Get(trades[1].must_have_compliance, 0, FALSE)
    /\ Get(trades[1].a_compliance, 0, FALSE)
    /\ show_trade_entry_form
    /\ trade_entry.grade = "F"

\* C24: Cancel on the trade entry form hides the form and leaves the
\* accounts, the trades, the session's active flag and its checked-rule
\* maps unchanged.
C24_CancelOnlyHidesForm ==
    Called("cancel") =>
        /\ ~show_trade_entry_form
        /\ accounts = gin.before.accounts
        /\ trades = gin.before.trades
        /\ live_trade_active = gin.before.live_trade_active
        /\ must_have_checked = gin.before.must_have_checked
        /\ a_checked = gin.before.a_checked
        /\ b_checked = gin.before.b_checked
        /\ c_checked = gin.before.c_checked

\* C24 witness: the form was cancelled while a session with its must-have
\* and A rule checked was active: the session is as it was, graded A
C24_Witness ==
    /\ Called("cancel")
    /\ ~show_trade_entry_form
    /\ live_trade_active
    /\ must_have_checked[0]
    /\ a_checked[0]
    /\ trade_entry.grade = "A"
    /\ accounts = InitAccounts

\* C23: a Clear leaves the session inactive with empty checked-rule maps
\* and no trade entry pending.
C23_ClearReturnsToIdle ==
    [][(live_trade_active /\ ~live_trade_active' /\ trades' = trades) =>
          (/\ must_have_checked' = EmptyDict
           /\ a_checked' = EmptyDict
           /\ b_checked' = EmptyDict
           /\ c_checked' = EmptyDict
           /\ ~show_trade_entry_form')]_vars

\* C25: the grade the active sidebar shows is A only if a configured A rule
\* is checked, and B only if a configured B rule is checked.
C25_GradeFromConfiguredRules ==
    (live_trade_active /\ RulesConfigured(settings)) =>
        LET grade == calculate_grade(settings, must_have_checked, a_checked,
                                     b_checked, c_checked).grade
        IN  /\ grade = "A" =>
                  \E i \in 0 .. settings.a_rules - 1 : Get(a_checked, i, FALSE)
            /\ grade = "B" =>
                  \E i \in 0 .. settings.b_rules - 1 : Get(b_checked, i, FALSE)

\* C26: no two records of the trades collection share an id.
C26_TradeIdsUnique ==
    \A i \in 1 .. Len(trades) :
    \A j \in 1 .. Len(trades) :
        i # j => trades[i].id # trades[j].id

-----------------------------------------------------------------------------
(* Validation and storage properties *)

\* C11: a withdrawal is recorded only if debt + reinvestment + savings +
\* personal equals the amount exactly; otherwise the form is rejected with an
\* error and neither the withdrawals nor any account balance changes.
C11_AllocationExactness ==
    Called("withdrawal") =>
        IF gin.alloc[1] + gin.alloc[2] + gin.alloc[3] + gin.alloc[4] = gin.amount
        THEN /\ ~gout[1].error
             /\ Len(withdrawals) = 1
             /\ withdrawals[1].amount = gin.amount
             /\ accounts[1].current_balance = InitialBalance - gin.amount
        ELSE /\ gout[1].error
             /\ withdrawals = <<>>
             /\ accounts = InitAccounts

\* C11 witness: parts 1, 2, 3, 4 against the amount 11 were rejected and
\* nothing was written
C11_Witness ==
    /\ Called("withdrawal")
    /\ gin.alloc = <<1, 2, 3, 4>>
    /\ gin.amount = 11
    /\ gout[1].error
    /\ withdrawals = <<>>
    /\ accounts[1].current_balance = InitialBalance

\* the account a trade record refers to is in the accounts collection
AccountExists(accts, number) == \E j \in 1 .. Len(accts) : accts[j].account_number = number

C13_AllOrNothing ==
    [][/\ (Len(trades') = Len(trades) + 1) =>
             accounts' = AddToBalance(accounts,
                             trades'[Len(trades')].account_id,
                             trades'[Len(trades')].pnl_net)
       /\ (Len(withdrawals') = Len(withdrawals) + 1) =>
             accounts' = AddToBalance(accounts,
                             withdrawals'[Len(withdrawals')].account_id,
                             -withdrawals'[Len(withdrawals')].amount)
       /\ (trades' = trades /\ withdrawals' = withdrawals) =>
             accounts' = accounts]_vars

\* C14: loading a collection whose file is missing or whose content is
\* malformed returns the empty collection and never raises.
C14_LoadNeverRaises ==
    (Called("load") /\ gin.file.kind # "json") =>
        (~gout[1].raised /\ gout[1].data = <<>>)

\* the store InitCalls gives an import call
FreshStore ==
    [prop_firms |-> <<>>, accounts |-> InitAccounts,
     playbooks |-> InitPlaybooks, trades |-> <<>>, withdrawals |-> <<>>,
     psychological_checkins |-> <<>>, config |-> DefaultSettings]

ListFiles == {"prop_firms", "accounts", "playbooks", "trades", "withdrawals"}

\* the check-ins a document carries, if any
DocCheckins(doc) ==
    IF "psychological_checkins" \in DOMAIN doc
    THEN Some(doc["psychological_checkins"])
    ELSE IF "daily_checkins" \in DOMAIN doc
         THEN Some(doc["daily_checkins"])
         ELSE None

\* the settings a document carries, if any: a dict or the first of a list
DocSettings(doc) ==
    IF "settings" \in DOMAIN doc
       /\ doc["settings"].kind \in {"dict", "list_of_dicts"}
    THEN Some(doc["settings"].value)
    ELSE None

ListsFollowDoc ==
    /\ \A k \in ListFiles :
          Store[k] = IF k \in DOMAIN gin.doc THEN gin.doc[k] ELSE FreshStore[k]
    /\ checkins = IF DocCheckins(gin.doc) # None THEN DocCheckins(gin.doc)[1]
                  ELSE FreshStore.psychological_checkins

C16_ImportNeverPartial ==
    (Called("import")
     /\ (~gout[1].ok \/ \E k \in DOMAIN gin.doc : k \in unwritable)) =>
        Store = FreshStore

\* a playbook of the old format: no rules_c, and strings under rules
Legacy(playbook) ==
    /\ playbook.rules_c = None
    /\ playbook.rules # None
    /\ \A i \in 1 .. Len(playbook.rules[1]) : IsStr(playbook.rules[1][i])

\* C18: a playbook with only a flat string list under rules normalises to
\* rules_c holding one {text, mandatory: true} item per string in the same
\* order, with rules_b and rules_a empty.
C18_LegacyMigration ==
    (Called("migrate") /\ Legacy(gin.playbook)) =>
        LET rules == gin.playbook.rules[1]
        IN  /\ gout[1].rules_c # None
            /\ Len(gout[1].rules_c[1]) = Len(rules)
            /\ \A i \in 1 .. Len(rules) :
                  /\ gout[1].rules_c[1][i].text = rules[i].str
                  /\ gout[1].rules_c[1][i].mandatory = TRUE
            /\ gout[1].rules_b = Some(<<>>)
            /\ gout[1].rules_a = Some(<<>>)

\* C18 witness: rules ["2", "1"] became two mandatory C rules, 2 before 1
C18_Witness ==
    /\ Called("migrate")
    /\ gin.playbook.rules = Some(<<Str(2), Str(1)>>)
    /\ gin.playbook.rules_c = None
    /\ gout[1].rules_c = Some(<<Rule(2, TRUE), Rule(1, TRUE)>>)
    /\ gout[1].rules_b = Some(<<>>)

\* the balance change a session's form asks for on account number
Asked(s, number) ==
    IF inflight[s].account_id = number THEN inflight[s].pnl_net ELSE 0

\* C20: when two submissions interleave, each save writes the saver's own
\* earlier copy of the collection with its one change, in full: what the
\* other session saved in between is overwritten.
C20_LastWriteWins ==
    [][/\ (accounts' # accounts) =>
             \E s \in Sessions :
                /\ inflight[s].pc = "save_accounts"
                /\ \A i \in 1 .. Len(accounts') :
                      accounts'[i].current_balance =
                          inflight[s].all_accounts[i].current_balance
                          + Asked(s, accounts'[i].account_number)
       /\ (trades' # trades) =>
             \E s \in Sessions :
                /\ inflight[s].pc = "save_trades"
                /\ Len(trades') = Len(inflight[s].trades) + 1
                /\ SubSeq(trades', 1, Len(inflight[s].trades))
                      = inflight[s].trades]_vars

\* C20 witness: both sessions are done, both trades are in trades.json on
\* account 1, and the balance of account 1 holds the P&L of one of them
C20_Witness ==
    /\ \A s \in Sessions : inflight[s].pc = "done"
    /\ \A s \in Sessions : inflight[s].account_id = 1
    /\ Len(trades) = 2
    /\ inflight[1].pnl_net = 2
    /\ inflight[2].pnl_net = 2
    /\ accounts[1].current_balance = InitialBalance + 2

-----------------------------------------------------------------------------
(* Clearance properties *)

Strict == settings.enforce_clearance = Some("Strict (Hard Block)")

\* C17: while the enforcement level is Strict (Hard Block) and the clearance
\* is RED or NO_CHECKIN, no step persists a trade or changes a balance.
C17_StrictBlocksTrading ==
    [][(Strict /\ ~get_trading_clearance(checkins, today).cleared) =>
           (trades' = trades /\ accounts' = accounts)]_vars

RECURSIVE CountDated(_, _)
CountDated(cs, d) ==
    IF cs = <<>> THEN 0
    ELSE (IF Head(cs).date = d THEN 1 ELSE 0) + CountDated(Tail(cs), d)

\* C19: the stored check-ins hold at most one record per calendar date, and
\* after a submission the record of today is the one submitted last.
C19_OneCheckinPerDate ==
    [][/\ \A d \in 0 .. MaxDays : CountDated(checkins', d) <= 1
       /\ (nsubmitted' # nsubmitted) =>
             \E checkin_data \in CheckinForms :
                /\ get_todays_checkin(checkins', today)
                      = Some(Dated(checkin_data, today))
                /\ OtherDays(checkins', today) = OtherDays(checkins, today)]_vars

\* C19 witness: two submissions on day 0, one on day 1 never made: one
\* record is stored, the alcohol day submitted second
C19_Witness ==
    /\ nsubmitted = 2
    /\ today = 0
    /\ Len(checkins) = 1
    /\ checkins[1].alcohol_consumed

-----------------------------------------------------------------------------
(* Withdrawal history and backup properties *)

\* C30: after a withdrawal is recorded against an account whose balance was
\* not negative, the balance of that account is still not negative.
C30_BalanceStaysNonNegative ==
    Called("withdrawal") =>
        \A i \in 1 .. Len(accounts) : accounts[i].current_balance >= 0

\* C27: "Update" on a withdrawal shown in the history sets the status of that
\* withdrawal and leaves every other withdrawal and every balance as it was.
C27_UpdatesShownWithdrawal ==
    [][\A i \in 1 .. Len(withdrawals) :
       \A new_status \in StatusChoices :
           UpdateStatusAt(i, new_status) =>
               (/\ withdrawals' =
                      [withdrawals EXCEPT
                          ![Shown(withdrawals, i)].status = Some(new_status)]
                /\ accounts' = accounts)]_vars

\* C29 as stated: importing what export_all_data returned leaves every
\* collection and the settings record as they were.
C29_RoundTripIsIdentity ==
    [][RoundTrip => Store' = Store]_vars

\* C29: importing what export_all_data returned leaves the six lists as they
\* were; the settings record is as it was if it had been saved before (or
\* config.json cannot be written), and else it is the record as it was with
\* enforce_clearance set to the default, Soft (Warning Only).
C29_RoundTripCompletesSettings ==
    [][RoundTrip =>
          (/\ gout'[1].ok
           /\ prop_firms' = prop_firms
           /\ accounts' = accounts
           /\ playbooks' = playbooks
           /\ trades' = trades
           /\ withdrawals' = withdrawals
           /\ checkins' = checkins
           /\ settings'.must_have_rules = settings.must_have_rules
           /\ settings'.a_rules = settings.a_rules
           /\ settings'.b_rules = settings.b_rules
           /\ settings'.c_rules = settings.c_rules
           /\ settings'.position_sizing = settings.position_sizing
           /\ settings'.enforce_clearance =
                  IF \/ settings.enforce_clearance # None
                     \/ "config" \in unwritable
                  THEN settings.enforce_clearance
                  ELSE Some("Soft (Warning Only)"))]_vars

\* C29 witness: a store holding a withdrawal and a check-in and no saved
\* settings went through export and import; the lists are as before and
\* the settings now carry the default enforcement level
C29_Witness ==
    /\ Called("roundtrip")
    /\ Len(gin.before.withdrawals) > 0
    /\ Len(gin.before.psychological_checkins) > 0
    /\ gin.before.config.enforce_clearance = None
    /\ withdrawals = gin.before.withdrawals
    /\ checkins = gin.before.psychological_checkins
    /\ accounts = gin.before.accounts
    /\ settings.enforce_clearance = Some("Soft (Warning Only)")

====
